---- MODULE Spec2Model ----
(***************************************************************************)
(* Model of spotify_popularity_playlist/popularity_playlist.py:            *)
(*   - deduplicate_by_name_and_add_popularity (the dedup-and-rank engine), *)
(*   - chunks (the generator that batches a list),                         *)
(*   - the tail of create_top_tracks_playlist (sort, dedupe, batched       *)
(*     playlist_add_items calls).                                          *)
(* Python lists are sequences (1-based here, 0-based in the source), dicts *)
(* are functions, TypedDict records are TLA+ records.                      *)
(***************************************************************************)
EXTENDS Integers, Sequences, FiniteSets

VARIABLES
    \* deduplicate_by_name_and_add_popularity
    albums,               \* argument `albums`
    threshold,            \* argument `threshold`
    scorer,               \* argument `scorer`: a table <<query name, choice name>> -> score
    extractor_album_ids,  \* local `extractor_album_ids` when the loop has ended
    result,               \* the returned list
    pass,                 \* 1: call on the drawn input, 2: call on the previous output
    \* chunks
    list_,                \* argument `list_`
    chunk_size,           \* argument `chunk_size`
    idx,                  \* loop variable `idx` of the suspended generator
    yielded,              \* the chunks yielded so far, in yield order
    gen,                  \* "created", "suspended", "exhausted" (StopIteration), "raised"
    \* create_top_tracks_playlist
    artist_tracks,        \* local `artist_tracks`, as fetched
    add_items_calls,      \* `items` of each playlist_add_items call, in call order
    pc

dedupeVars == <<albums, threshold, scorer, extractor_album_ids, result, pass>>

chunkVars == <<list_, chunk_size, idx, yielded, gen>>

playlistVars == <<artist_tracks, add_items_calls>>

vars == <<dedupeVars, chunkVars, playlistVars, pc>>

----------------------------------------------------------------------------
(* Program constants *)

TRACK_CHUNK_SIZE == 50

PLAYLIST_CHUNK_SIZE == 100

DEFAULT_THRESHOLD == 99

----------------------------------------------------------------------------
(* Bounds and value domains of the inputs *)

\* longest list given to the engine
MaxLen == 3

\* longest list given to chunks (besides the 105-element example)
MaxItems == 5

\* chunk sizes run over -MaxChunk..MaxChunk
MaxChunk == 3

Names == {1, 2, 3}

Popularities == {10, 20}

ScoreVals == {50, 100}

Thresholds == {50, DEFAULT_THRESHOLD}

Items == {1, 2}

----------------------------------------------------------------------------
(* Helpers for Python's built-ins *)

Range(s) == {s[k] : k \in 1..Len(s)}

Max(S) == CHOOSE x \in S : \A y \in S : y <= x

Min(S) == CHOOSE x \in S : \A y \in S : x <= y

\* Mutant of InsertByPopularity: an element goes before the elements of equal
\* popularity already placed (a sort that is not stable).
InsertByPopularity_TiesReversed(sorted_, d) ==
    LET n == Cardinality({k \in 1..Len(sorted_) : sorted_[k].popularity > d.popularity})
    IN  SubSeq(sorted_, 1, n) \o <<d>> \o SubSeq(sorted_, n + 1, Len(sorted_))

\* sorted(s, key=lambda d: d["popularity"], reverse=True): Python's sort is
\* stable, and reverse=True keeps the original order of equal keys.  Each
\* element goes after every element already placed whose key is >= its own.
InsertByPopularity(sorted_, d) ==
    LET n == Cardinality({k \in 1..Len(sorted_) : sorted_[k].popularity >= d.popularity})
    IN  SubSeq(sorted_, 1, n) \o <<d>> \o SubSeq(sorted_, n + 1, Len(sorted_))

\* The elements s[lo..hi] inserted one by one, in order, into sorted_.  The
\* range is split in halves, the first half evaluated before the second,
\* only to keep the evaluation shallow.
RECURSIVE InsertAll(_, _, _, _)
InsertAll(sorted_, s, lo, hi) ==
    IF lo > hi THEN sorted_
    ELSE IF lo = hi THEN InsertByPopularity(sorted_, s[lo])
    ELSE LET mid == (lo + hi) \div 2
             first == InsertAll(sorted_, s, lo, mid)
         IN  IF Len(first) >= 0 THEN InsertAll(first, s, mid + 1, hi) ELSE first

sorted_by_popularity(s) == InsertAll(<<>>, s, 1, Len(s))

\* Mutant of Slice: the end index is taken as inclusive.
Slice_EndInclusive(s, a, b) == SubSeq(s, Min({a, Len(s)}) + 1, Min({b + 1, Len(s)}))

\* s[a:b] for a, b >= 0 (0-based, end exclusive, clipped to the list).
Slice(s, a, b) == SubSeq(s, Min({a, Len(s)}) + 1, Min({b, Len(s)}))

RECURSIVE Concat(_)
Concat(ss) == IF ss = <<>> THEN <<>> ELSE Concat(SubSeq(ss, 1, Len(ss) - 1)) \o ss[Len(ss)]

----------------------------------------------------------------------------
(* deduplicate_by_name_and_add_popularity *)

\* {album["id"]: album.copy() for album in albums}: a later album with the
\* same id overwrites an earlier one.
album_id_dict(albums_) ==
    [i \in {albums_[k].id : k \in 1..Len(albums_)} |->
        albums_[Max({k \in 1..Len(albums_) : albums_[k].id = i})]]

\* {album["id"]: album["name"] for album in albums}, as the list of its
\* (id, name) items in insertion order.  Identifiers are unique within one
\* call, so every album inserts a new key.
dupe_album_id_names_dict(albums_) ==
    [k \in 1..Len(albums_) |-> [id |-> albums_[k].id, name |-> albums_[k].name]]

\* process.extract(query, choices, limit=None, scorer): one (name, score, id)
\* per item of the choices dict.  The library returns them ordered by score;
\* the engine reads only their number and their ids, so the dict's order is
\* kept here.
album_matches(item, choices, scorer_) ==
    [k \in 1..Len(choices) |->
        [album_name |-> choices[k].name,
         score      |-> scorer_[<<item.name, choices[k].name>>],
         album_id   |-> choices[k].id]]

\* Mutant of filtered_album_matches: a score equal to the threshold passes.
filtered_album_matches_AtLeast(item, choices, threshold_, scorer_) ==
    SelectSeq(album_matches(item, choices, scorer_),
              LAMBDA album_match : album_match.score >= threshold_)

filtered_album_matches(item, choices, threshold_, scorer_) ==
    SelectSeq(album_matches(item, choices, scorer_),
              LAMBDA album_match : album_match.score > threshold_)

\* The condition of the `if` that appends item["id"] to extractor_album_ids.
IsKept(item, choices, threshold_, scorer_, extractor) ==
    LET filtered == filtered_album_matches(item, choices, threshold_, scorer_)
    IN  \/ Len(filtered) = 1
        \/ {k \in 1..Len(filtered) : filtered[k].album_id \in Range(extractor)} = {}

\* Mutant of LoopBody: the identifier of the first surviving match is
\* appended, as the library's own dedupe does, not the item's.
LoopBody_AppendsMatch(albums_, threshold_, scorer_, extractor, k) ==
    LET choices  == dupe_album_id_names_dict(albums_)
        filtered == filtered_album_matches(albums_[k], choices, threshold_, scorer_)
    IN  IF IsKept(albums_[k], choices, threshold_, scorer_, extractor)
        THEN Append(extractor, IF filtered = <<>> THEN albums_[k].id ELSE filtered[1].album_id)
        ELSE extractor

\* Mutant of LoopBody: the matches are looked up among all the earlier
\* records, kept or dropped.
LoopBody_AnyEarlier(albums_, threshold_, scorer_, extractor, k) ==
    IF IsKept(albums_[k], dupe_album_id_names_dict(albums_), threshold_, scorer_,
              [j \in 1..(k - 1) |-> albums_[j].id])
    THEN Append(extractor, albums_[k].id)
    ELSE extractor

\* Mutant of LoopBody: duplicates are taken to be adjacent, so the matches
\* are looked up in the previous record alone, if it was kept.
LoopBody_PreviousOnly(albums_, threshold_, scorer_, extractor, k) ==
    IF IsKept(albums_[k], dupe_album_id_names_dict(albums_), threshold_, scorer_,
              SelectSeq(extractor, LAMBDA i : k > 1 /\ i = albums_[k - 1].id))
    THEN Append(extractor, albums_[k].id)
    ELSE extractor

\* One iteration of `for item in albums`, for item = albums[k].
LoopBody(albums_, threshold_, scorer_, extractor, k) ==
    IF IsKept(albums_[k], dupe_album_id_names_dict(albums_), threshold_, scorer_, extractor)
    THEN Append(extractor, albums_[k].id)
    ELSE extractor

\* The iterations for albums[lo..hi], in order, starting from `extractor`.
\* The range is split in halves, the first half evaluated before the second,
\* only to keep the evaluation shallow.
RECURSIVE Loop(_, _, _, _, _, _)
Loop(albums_, threshold_, scorer_, extractor, lo, hi) ==
    IF lo > hi THEN extractor
    ELSE IF lo = hi THEN LoopBody(albums_, threshold_, scorer_, extractor, lo)
    ELSE LET mid == (lo + hi) \div 2
             first == Loop(albums_, threshold_, scorer_, extractor, lo, mid)
         IN  IF Len(first) >= 0
             THEN Loop(albums_, threshold_, scorer_, first, mid + 1, hi)
             ELSE first

\* extractor_album_ids after the first k iterations of the loop.
ExtractorAfter(albums_, threshold_, scorer_, k) ==
    Loop(albums_, threshold_, scorer_, <<>>, 1, k)

\* Mutant of Returned: the kept records are sorted in every case.
Returned_AlwaysSorted(albums_, extractor) ==
    sorted_by_popularity([k \in 1..Len(extractor) |-> album_id_dict(albums_)[extractor[k]]])

\* Mutant of Returned: the test of the lengths is inverted.
Returned_Inverted(albums_, extractor) ==
    IF Len(extractor) = Len(albums_)
    THEN sorted_by_popularity([k \in 1..Len(extractor) |-> album_id_dict(albums_)[extractor[k]]])
    ELSE albums_

\* The return expression.
Returned(albums_, extractor) ==
    IF Len(extractor) # Len(albums_)
    THEN sorted_by_popularity([k \in 1..Len(extractor) |-> album_id_dict(albums_)[extractor[k]]])
    ELSE albums_

deduplicate_by_name_and_add_popularity(albums_, threshold_, scorer_) ==
    Returned(albums_, ExtractorAfter(albums_, threshold_, scorer_, Len(albums_)))

----------------------------------------------------------------------------
(* Inputs of the engine *)

Album == [id : 1..MaxLen, name : Names, popularity : Popularities]

\* Identifiers are unique within one call and opaque: the engine only
\* compares them, so one numbering (not the list position) is drawn.  Names
\* are opaque to the engine too (only the scorer reads them), so the k-th
\* distinct name of a list is name k.
AlbumListsOfLen(n) ==
    {s \in [1..n -> Album] :
        /\ \A k \in 1..n : s[k].id = n + 1 - k
        /\ \A k \in 1..n : s[k].name <= 1 + Max({0} \cup {s[j].name : j \in 1..(k - 1)})}

AlbumLists == UNION {AlbumListsOfLen(n) : n \in 0..MaxLen}

NamesOf(s) == {s[k].name : k \in 1..Len(s)}

\* A scorer is any table of scores over the names of the list.
Scorers(s) == [NamesOf(s) \X NamesOf(s) -> ScoreVals]

NoChunks ==
    /\ list_ = <<>>
    /\ chunk_size = 1
    /\ idx = 0
    /\ yielded = <<>>
    /\ gen = "none"

NoPlaylist ==
    /\ artist_tracks = <<>>
    /\ add_items_calls = <<>>

NoDedupe ==
    /\ albums = <<>>
    /\ threshold = DEFAULT_THRESHOLD
    /\ scorer = <<>>
    /\ extractor_album_ids = <<>>
    /\ result = <<>>
    /\ pass = 0

Init ==
    /\ albums \in AlbumLists
    /\ threshold \in Thresholds
    /\ scorer \in Scorers(albums)
    /\ extractor_album_ids = <<>>
    /\ result = <<>>
    /\ pass = 1
    /\ pc = "ready"
    /\ NoChunks
    /\ NoPlaylist

\* One call of the engine, from its first line to its return.
Call ==
    /\ pc = "ready"
    /\ extractor_album_ids' = ExtractorAfter(albums, threshold, scorer, Len(albums))
    /\ result' = deduplicate_by_name_and_add_popularity(albums, threshold, scorer)
    /\ pc' = "returned"
    /\ UNCHANGED <<albums, threshold, scorer, pass, chunkVars, playlistVars>>

\* The caller calls the engine again on its own output, with the same
\* threshold and scorer.
Rerun ==
    /\ pc = "returned"
    /\ pass = 1
    /\ albums' = result
    /\ extractor_album_ids' = ExtractorAfter(result, threshold, scorer, Len(result))
    /\ result' = deduplicate_by_name_and_add_popularity(result, threshold, scorer)
    /\ pass' = 2
    /\ UNCHANGED <<threshold, scorer, pc, chunkVars, playlistVars>>

Next == Call \/ Rerun

Spec == Init /\ [][Next]_vars

----------------------------------------------------------------------------
(* Properties of deduplicate_by_name_and_add_popularity, checked under Spec *)

Returns == pc = "returned"

Indices == 1..Len(albums)

\* Position in the input of the record with identifier i.
Pos(i) == CHOOSE k \in Indices : albums[k].id = i

\* Whether the query name of albums[j] scores above the threshold against
\* the name of albums[k].
Above(j, k) == scorer[<<albums[j].name, albums[k].name>>] > threshold

\* Whether albums[k] was appended to extractor_album_ids.
Kept(k) == albums[k].id \in Range(extractor_album_ids)

DistinctIds(s) == \A j, k \in 1..Len(s) : j # k => s[j].id # s[k].id

NonIncreasing(s) == \A k \in 1..(Len(s) - 1) : s[k].popularity >= s[k + 1].popularity

\* Sets of at least two input records whose names pairwise score above the
\* threshold, in both directions and each against itself.
NearDuplicateSets ==
    {c \in SUBSET Indices :
        /\ Cardinality(c) >= 2
        /\ \A j, k \in c : Above(j, k)}

\* Clusters of near-duplicates: the largest such sets.
Clusters ==
    {c \in NearDuplicateSets : \A d \in NearDuplicateSets : c \subseteq d => c = d}

\* C1: for an input with pairwise distinct identifiers, the identifiers of
\* the output are a subset of the input's, none occurs twice, and the output
\* is no longer than the input.
C1_Subset ==
    (Returns /\ DistinctIds(albums)) =>
        /\ \A k \in 1..Len(result) : \E j \in Indices : result[k].id = albums[j].id
        /\ DistinctIds(result)
        /\ Len(result) <= Len(albums)

C1_Witness ==
    /\ Returns
    /\ pass = 1
    /\ Len(result) >= 2
    /\ Len(result) < Len(albums)

\* C2: an output shorter than the input is sorted by popularity,
\* non-increasing, and records of equal popularity keep their input order.
C2_SortedStable ==
    (Returns /\ Len(result) < Len(albums)) =>
        \A j, k \in 1..Len(result) : j < k =>
            /\ result[j].popularity >= result[k].popularity
            /\ result[j].popularity = result[k].popularity
                  => Pos(result[j].id) < Pos(result[k].id)

C2_Witness ==
    /\ Returns
    /\ pass = 1
    /\ Len(result) < Len(albums)
    /\ \E j, k \in 1..Len(result) :
          j < k /\ result[j].popularity = result[k].popularity

ScoredNames == {p[1] : p \in DOMAIN scorer}

\* Every name scores above the threshold against itself.
SelfMatches == \A x \in ScoredNames : scorer[<<x, x>>] > threshold

\* C4 as claimed: for every input, threshold and scorer, the engine applied
\* to its own output returns that output unchanged; stated here for the
\* scorers under which every name matches itself, which is enough to refute
\* it.  (In the second pass `albums` is the output of the first.)
C4_Idempotent ==
    (Returns /\ pass = 2 /\ SelfMatches) => result = albums

\* Scoring above the threshold is symmetric, and a name that scores above
\* the threshold against some name does so against itself.
MatchesSymmetricReflexive ==
    \A x, y \in ScoredNames :
        /\ scorer[<<x, y>>] > threshold <=> scorer[<<y, x>>] > threshold
        /\ scorer[<<x, y>>] > threshold => scorer[<<x, x>>] > threshold

\* C4 amended: the engine applied to its own output returns that output
\* unchanged whenever the scorer's matches are symmetric and a name that
\* matches any name matches itself.
C4_IdempotentSymmetric ==
    (Returns /\ pass = 2 /\ MatchesSymmetricReflexive) => result = albums

\* The first pass dropped a record (a scored name is gone) and kept several.
C4_Witness ==
    /\ Returns
    /\ pass = 2
    /\ MatchesSymmetricReflexive
    /\ Len(albums) >= 2
    /\ ScoredNames # NamesOf(albums)
    /\ result = albums

\* C5 as claimed: of every cluster the first record in input order is kept
\* and every later one is dropped; stated here for the scorers whose matches
\* are symmetric and include every name with itself, which is enough to
\* refute it.
C5_FirstSeenWins ==
    (Returns /\ SelfMatches /\ MatchesSymmetricReflexive) =>
        \A c \in Clusters :
            /\ Kept(Min(c))
            /\ \A k \in c \ {Min(c)} : ~Kept(k)

\* C5 amended: in a cluster, once a record is kept every later one is
\* dropped, whatever their popularity; the first record of the cluster is
\* the one kept unless it scores above the threshold against a record kept
\* before it, and then it is dropped.  The output holds exactly the kept records, so an input that
\* is one cluster comes back as its first record alone.
C5_FirstKeptWins ==
    Returns =>
        /\ \A c \in Clusters :
              /\ \A j, k \in c : (j < k /\ Kept(j)) => ~Kept(k)
              /\ Kept(Min(c)) <=>
                    \A j \in 1..(Min(c) - 1) : Kept(j) => ~Above(Min(c), j)
        /\ {result[k].id : k \in 1..Len(result)} = Range(extractor_album_ids)
        /\ Indices \in Clusters => result = <<albums[1]>>

C5_Witness ==
    /\ Returns
    /\ pass = 1
    /\ \E c \in Clusters :
          /\ Min(c) > 1
          /\ Kept(Min(c))
          /\ \E k \in c : ~Kept(k) /\ albums[k].popularity > albums[Min(c)].popularity
          /\ \A k \in 1..Len(result) : result[k].id # albums[Max(c)].id

AllBelow == \A j, k \in Indices : j # k => scorer[<<albums[j].name, albums[k].name>>] < threshold

C10_DroppedOnlyForKept ==
    Returns =>
        /\ \A k \in Indices :
              ~Kept(k) => \E j \in 1..(k - 1) :
                              /\ Kept(j)
                              /\ Above(k, j)
                              /\ \E r \in 1..Len(result) : result[r].id = albums[j].id
        /\ \A k \in Indices :
              (\A j \in Indices : Above(k, j) => (j = k \/ (j < k /\ ~Kept(j)))) => Kept(k)
        /\ \A k \in Indices :
              Kept(k) <=> \E r \in 1..Len(result) : result[r].id = albums[k].id

\* A record kept although it scores above the threshold against an earlier
\* record, which was dropped.
C10_Witness ==
    /\ Returns
    /\ pass = 1
    /\ \E j, k \in Indices :
          /\ j < k
          /\ ~Kept(j)
          /\ Above(k, j)
          /\ Above(k, k)
          /\ Kept(k)

----------------------------------------------------------------------------
(* chunks *)

\* The value `idx` takes at the next step of range(0, len(list_), chunk_size).
NextIdx == IF gen = "created" THEN 0 ELSE idx + chunk_size

\* Whether range(0, stop, step) holds i, for step # 0.
InRange(i, stop, step) == IF step > 0 THEN i < stop ELSE i > stop

\* next() on the generator: range() raises ValueError for a step of 0.
GenRaise ==
    /\ gen = "created"
    /\ chunk_size = 0
    /\ gen' = "raised"
    /\ UNCHANGED <<list_, chunk_size, idx, yielded>>

\* next() on the generator: the loop body runs and yields a slice.
GenYield ==
    /\ gen \in {"created", "suspended"}
    /\ chunk_size # 0
    /\ InRange(NextIdx, Len(list_), chunk_size)
    /\ idx' = NextIdx
    /\ yielded' = Append(yielded, Slice(list_, NextIdx, NextIdx + chunk_size))
    /\ gen' = "suspended"
    /\ UNCHANGED <<list_, chunk_size>>

\* next() on the generator: the range is used up, the generator returns.
GenStop ==
    /\ gen \in {"created", "suspended"}
    /\ chunk_size # 0
    /\ ~InRange(NextIdx, Len(list_), chunk_size)
    /\ gen' = "exhausted"
    /\ UNCHANGED <<list_, chunk_size, idx, yielded>>

ItemLists == UNION {[1..n -> Items] : n \in 0..MaxItems}

ChunkSizes == (-MaxChunk)..MaxChunk

\* The spec's example: 105 elements in chunks of 50.
ExampleList == [k \in 1..105 |-> k]

ChunksInit ==
    /\ \/ list_ \in ItemLists /\ chunk_size \in ChunkSizes
       \/ list_ = ExampleList /\ chunk_size = TRACK_CHUNK_SIZE
    /\ idx = 0
    /\ yielded = <<>>
    /\ gen = "created"
    /\ pc = "chunks"
    /\ NoDedupe
    /\ NoPlaylist

ChunksRaise == GenRaise /\ pc = "chunks" /\ UNCHANGED <<dedupeVars, playlistVars, pc>>

ChunksYield == GenYield /\ pc = "chunks" /\ UNCHANGED <<dedupeVars, playlistVars, pc>>

ChunksStop == GenStop /\ pc = "chunks" /\ UNCHANGED <<dedupeVars, playlistVars, pc>>

ChunksNext == ChunksRaise \/ ChunksYield \/ ChunksStop

ChunksSpec == ChunksInit /\ [][ChunksNext]_vars

----------------------------------------------------------------------------
(* Properties of chunks, checked under ChunksSpec *)

ChunkLens == [k \in 1..Len(yielded) |-> Len(yielded[k])]

\* C7: for a positive chunk_size the chunks, concatenated in yield order,
\* are the input list; every chunk but the last has chunk_size elements and
\* the last holds the non-empty rest; there are ceil(len / chunk_size) of
\* them, none for an empty list and 50, 50, 5 for 105 elements by 50.
C7_Chunks ==
    chunk_size > 0 =>
        /\ gen # "raised"
        /\ Concat(yielded) = SubSeq(list_, 1, Len(Concat(yielded)))
        /\ \A k \in 1..(Len(yielded) - 1) : Len(yielded[k]) = chunk_size
        /\ \A k \in 1..Len(yielded) : Len(yielded[k]) \in 1..chunk_size
        /\ gen = "exhausted" =>
              /\ Concat(yielded) = list_
              /\ Len(yielded) = (Len(list_) + chunk_size - 1) \div chunk_size
              /\ (list_ = ExampleList /\ chunk_size = TRACK_CHUNK_SIZE)
                    => ChunkLens = <<50, 50, 5>>

C7_Witness ==
    /\ gen = "exhausted"
    /\ list_ = ExampleList
    /\ chunk_size = TRACK_CHUNK_SIZE
    /\ ChunkLens = <<50, 50, 5>>

\* C8: a chunk size of 0 or below is rejected with an error for every list;
\* the generator never ends normally for it.
C8_NonPositiveRejected ==
    (chunk_size <= 0 /\ gen # "created") => gen = "raised"

----------------------------------------------------------------------------
(* create_top_tracks_playlist, from the sort of the fetched tracks on *)

\* Mutant of SortedTracks: the tracks are deduplicated in the order fetched.
SortedTracks_AsFetched(tracks) == tracks

\* sorted(artist_tracks, key=lambda track: track["popularity"], reverse=True)
SortedTracks(tracks) == sorted_by_popularity(tracks)

\* [track["id"] for track in artist_tracks_by_popularity]
TrackIds(tracks) == [k \in 1..Len(tracks) |-> tracks[k].id]

\* Long track lists, so that more than one batch is sent: n tracks over g
\* names in rotation, with popularities out of order and tied.
LongTracks(n, g) ==
    [k \in 1..n |-> [id |-> n + 1 - k, name |-> ((k - 1) % g) + 1,
                     popularity |-> ((k * 7) % 5) * 10]]

\* A scorer that gives 100 to equal names and 50 to different ones.
ExactScorer(g) == [p \in (1..g) \X (1..g) |-> IF p[1] = p[2] THEN 100 ELSE 50]

LongCases == {<<100, 100>>, <<101, 101>>, <<230, 120>>, <<201, 201>>}

PlaylistInit ==
    /\ \/ artist_tracks \in AlbumLists /\ scorer \in Scorers(artist_tracks)
       \/ \E c \in LongCases :
            /\ artist_tracks = LongTracks(c[1], c[2])
            /\ scorer = ExactScorer(c[2])
    /\ add_items_calls = <<>>
    /\ albums = <<>>
    /\ threshold = DEFAULT_THRESHOLD
    /\ extractor_album_ids = <<>>
    /\ result = <<>>
    /\ pass = 0
    /\ pc = "fetched"
    /\ NoChunks

\* artist_tracks_by_popularity = deduplicate_by_name_and_add_popularity(
\*     sorted(artist_tracks, ...), threshold=99, scorer=fuzz.token_sort_ratio)
DedupeTracks ==
    /\ pc = "fetched"
    /\ albums' = SortedTracks(artist_tracks)
    /\ threshold' = DEFAULT_THRESHOLD
    /\ extractor_album_ids' = ExtractorAfter(albums', threshold', scorer, Len(albums'))
    /\ result' = deduplicate_by_name_and_add_popularity(albums', threshold', scorer)
    /\ pass' = 1
    /\ pc' = "deduped"
    /\ UNCHANGED <<scorer, chunkVars, playlistVars>>

\* user_playlist_create, then the generator chunks(ids, PLAYLIST_CHUNK_SIZE)
\* is created.
CreatePlaylist ==
    /\ pc = "deduped"
    /\ list_' = TrackIds(result)
    /\ chunk_size' = PLAYLIST_CHUNK_SIZE
    /\ idx' = 0
    /\ yielded' = <<>>
    /\ gen' = "created"
    /\ add_items_calls' = <<>>
    /\ pc' = "adding"
    /\ UNCHANGED <<dedupeVars, artist_tracks>>

\* One iteration of the `for track_ids_chunk in chunks(...)` loop:
\* playlist_add_items(items=track_ids_chunk).
AddItems ==
    /\ pc = "adding"
    /\ GenYield
    /\ add_items_calls' = Append(add_items_calls, yielded'[Len(yielded')])
    /\ UNCHANGED <<dedupeVars, artist_tracks, pc>>

\* The generator is used up: the loop ends.
Finish ==
    /\ pc = "adding"
    /\ GenStop
    /\ pc' = "done"
    /\ UNCHANGED <<dedupeVars, playlistVars>>

PlaylistNext == DedupeTracks \/ CreatePlaylist \/ AddItems \/ Finish

PlaylistSpec == PlaylistInit /\ [][PlaylistNext]_vars

----------------------------------------------------------------------------
(* Properties of create_top_tracks_playlist, checked under PlaylistSpec *)

\* The identifiers submitted so far, in submission order.
Inserted == Concat(add_items_calls)

PopularityOf(i) ==
    artist_tracks[CHOOSE k \in 1..Len(artist_tracks) : artist_tracks[k].id = i].popularity

\* C9: every playlist_add_items call submits at most PLAYLIST_CHUNK_SIZE
\* identifiers; the batches, concatenated in call order, are the identifiers
\* of the engine's output; and they are in non-increasing popularity order,
\* whether or not a duplicate was dropped.
C9_Batches ==
    /\ \A k \in 1..Len(add_items_calls) : Len(add_items_calls[k]) <= PLAYLIST_CHUNK_SIZE
    /\ pc \in {"adding", "done"} =>
          /\ Inserted = SubSeq(TrackIds(result), 1, Len(Inserted))
          /\ \A k \in 1..(Len(Inserted) - 1) :
                PopularityOf(Inserted[k]) >= PopularityOf(Inserted[k + 1])
    /\ pc = "done" => Inserted = TrackIds(result)

\* Several batches were sent, of tracks fetched out of order, some dropped.
C9_Witness ==
    /\ pc = "done"
    /\ Len(add_items_calls) >= 2
    /\ Len(result) < Len(artist_tracks)
    /\ \E k \in 1..(Len(artist_tracks) - 1) :
          artist_tracks[k].popularity < artist_tracks[k + 1].popularity

====
